---- MODULE Spec2Model ----
(***************************************************************************)
(* The CEO access gate (src/src/components/ceo/CEOPinAuth.tsx): a React    *)
(* component holding a six-position PIN entry, an error message, a loading *)
(* flag and a biometric-availability flag, with two asynchronous flows     *)
(* (verifyPin, handleBiometricAuth) against the ceo_access_credentials     *)
(* table and the platform's WebAuthn API.  Every await of the source is a  *)
(* suspension point: one action issues the call, a later action is the     *)
(* continuation that runs from the await to the next await or the return.  *)
(***************************************************************************)
EXTENDS Integers, Sequences, FiniteSets, TLC

(* ------------------------------ bounds --------------------------------- *)
\* success callbacks scheduled in one behaviour
MaxGrants == 2
\* consecutive failed PIN attempts told apart (any more count as this many)
MaxFailures == 2
\* requests the create-executive-user function answers in one behaviour
MaxRequests == 2
\* hire forms submitted in one behaviour of PersonnelManager
MaxHires == 1
\* handlers and list fetches of PersonnelManager in flight together
MaxInFlight == 2
\* fetchDashboardMetrics calls started in one behaviour of BoardPortal
MaxFetches == 3
\* changes to the orders, employees and approvals tables
MaxChanges == 2
\* foreground push notifications received by PushNotificationSetup
MaxPushes == 2

(* --------------------------- program constants ------------------------- *)
PinLen == 6
LastIndex == 5

NoFocus == 0 - 1

\* create-executive-user: access_level of an executive, and the statuses of
\* its responses
ExecutiveLevel == 2
StatusOk == 200
StatusError == 500
NoResponse == 0 - 1
NoUser == 0 - 1
\* the auth user that exists before any request has id 0 and this email
FounderEmail == "founder@example.com"
Methods == {"OPTIONS", "POST"}
Emails == {FounderEmail, "cfo@example.com"}
Roles == {"cfo", "board_member"}

\* PersonnelManager: position titles typed into the forms, and the titles
\* among them that /chief|ceo|cfo|cto|coo|president/i and
\* toLowerCase().includes('ceo') accept
Positions == {"CEO", "CFO", "Engineer"}
MatchesCLevel == {"CEO", "CFO"}
IncludesCeo == {"CEO"}
\* the equity field: left blank, or a percentage
NoEquity == 0 - 1
Equities == {NoEquity, 0, 5}
\* the documents, by the function that sends each
BoardResolutionDoc == "send-board-resolution"
OfferLetterDoc == "send-executive-offer-letter"
EquityAgreementDoc == "send-equity-offer-agreement"
FoundersAgreementDoc == "send-founders-equity-insurance-agreement"
DocsAll == "Board Resolution, Offer Letter, Equity Agreement, and Founders Agreement"
DocsEquity == "Board Resolution, Offer Letter, and Equity Agreement"
DocsBasic == "Board Resolution and Offer Letter"
Null == "null"

userEmail == "ceo@example.com"
otherEmail == "cfo@example.com"

EmptyPin == <<"", "", "", "", "", "">>

MsgNotFound == "Access credentials not found"
MsgInvalidPin == "Invalid PIN. Access Denied."
MsgAuthError == "Authentication error"
MsgBiometricFailed == "Biometric authentication failed"
MsgRegisterFailed == "Failed to register biometric"
MsgVerifyFailed == "Biometric verification failed"

(* ------------------------------ inputs --------------------------------- *)
\* what /^\d$/ accepts
DigitChars == {"0", "1", "2", "3", "4", "5", "6", "7", "8", "9"}
\* values an onChange event can carry at a position: cleared, a digit, a
\* letter, two characters; the second digit is typed at the last position only
TypedValues(index) ==
    {"", "1", "a", "12"} \cup (IF index = LastIndex THEN {"2"} ELSE {})
\* PINs a record can have been provisioned with
PlainPins == {"111111"}
\* last_access_at of a provisioned row, and what new Date().toISOString() yields
ProvisionedAt == "2025-01-01T00:00:00.000Z"
Now == "now"
\* credential ids the platform issues (base64url): one inside the base64
\* alphabet, one using the url-safe character '-'
PlatformCredentialIds == {"AQID", "A-ID"}
Base64Decodable == {"AQID"}

(* --------------------------- pure functions ---------------------------- *)
\* Array.prototype.join('') on the six positions
RECURSIVE Join(_)
Join(s) == IF s = <<>> THEN "" ELSE Head(s) \o Join(Tail(s))

\* newPin.every(digit => digit !== '')
EveryFilled(p) == \A i \in 1..Len(p) : p[i] # ""

\* bcrypt: the hash carries its salt; compare re-hashes the candidate with
\* the stored salt and compares the results
BcryptHash(plain, salt) == [salt |-> salt, digest |-> <<salt, plain>>]

BcryptCompareSaltOnly(plain, hash) == BcryptHash(plain, hash.salt).salt = hash.salt

BcryptCompare(plain, hash) == BcryptHash(plain, hash.salt) = hash

\* btoa(String.fromCharCode(...attestationObject)): a non-empty encoding
PublicKeyOf(credId) == "pk:" \o credId

\* atob(credentialId) throws on a character outside the base64 alphabet
AtobThrows(credId) == credId \notin Base64Decodable

(* ------------------------------- state --------------------------------- *)
VARIABLES
    pin,                 \* useState pin: six strings
    error,               \* useState error
    loading,             \* useState loading
    biometricAvailable,  \* useState biometricAvailable
    focus,               \* index of the focused PIN input, or NoFocus
    platform,            \* "absent" | "unsupported" | "supported"
    probe,               \* checkBiometricAvailability: "pending" | "done"
    db,                  \* the rows of ceo_access_credentials
    vpc,                 \* verifyPin at: "idle" | "fetch" | "compare" | "update"
    pinValue,            \* verifyPin's argument
    credentials,         \* verifyPin's fetched data: {} is null, else {[pin_hash]}
    attemptAudits,       \* audit updates verifyPin has issued in this call
    bpc,                 \* handleBiometricAuth at: "idle" | "fetch" | "create" |
                         \* "update" | "get"
    credential,          \* registerBiometric's created credential id, or Null
    credentialId,        \* authenticateBiometric's argument, or Null
    resp,                \* the awaited call's settlement, [kind |-> "none"] while pending
    timers,              \* pending setTimeout(() => onSuccess(), 500)
    onSuccessCount,      \* invocations of props.onSuccess
    registered,          \* a registration ceremony has signalled success
    failures,            \* history: consecutive PIN attempts that ended denied
    typed,               \* history: the value the step's onChange event carried
    \* create-executive-user (src/unnamed/part_000)
    authUsers,           \* the auth users: [id, email]
    execUsers,           \* the rows of exec_users: [user_id, role]
    epc,                 \* the handler at: "idle" | "createUser" | "insert" | "deleteUser"
    request,             \* the request being served
    authData,            \* authData.user.id, or NoUser
    settled,             \* the awaited admin call's settlement, "none" while pending
    response,            \* status of the last response, NoResponse before any
    served,              \* requests answered
    created,             \* history: id of the auth user this request created, or NoUser
    \* PersonnelManager (src/src/components/ceo/PersonnelManager.tsx)
    employeesDb,         \* the rows of employees
    equityDb,            \* employee ids with an employee_equity row
    historyDb,           \* the rows of employee_history: [employee_id, action_type]
    resolutions,         \* rows of board_resolutions
    employees,           \* useState employees: the rows last fetched
    fetching,            \* fetchEmployees calls in flight
    employeesLoading,    \* useState loading (of the list)
    isModalVisible,      \* useState isModalVisible
    isPromoteModalVisible, \* useState isPromoteModalVisible
    selectedEmployee,    \* useState selectedEmployee: {} is null, else {row}
    form,                \* the hire form's fields
    lastMessage,         \* the last message.success / message.error shown
    hpc,                 \* handleHire at
    values,              \* handleHire's argument
    insertError,         \* handleHire's `error` (line 96) is set
    newId,               \* data[0].id
    invoked,             \* functions.invoke calls handleHire has made, in order
    sent,                \* the documents whose function call succeeded, in order
    hires,               \* hire forms submitted
    ppc,                 \* handlePromote at
    promoting,           \* handlePromote's selectedEmployee and values
    tpc,                 \* handleTerminate at
    terminating,         \* handleTerminate's argument: {} while idle, else {row}
    \* BoardPortal (DocumentImageViewer.tsx, lines 1125-1234)
    isAuthorized,        \* useExecAuth().isAuthorized
    mounted,             \* the component is mounted
    intervalOn,          \* the 60-second interval is set
    subscribed,          \* the board_metrics_updates channel is subscribed
    tables,              \* row counts of orders, employees, pending approvals
    changes,             \* changes made to those tables
    inflight,            \* fetchDashboardMetrics calls in flight: [n, data]
    started,             \* fetchDashboardMetrics calls started
    metrics,             \* useState metrics
    latest,              \* history: what the most recently started call read
    \* PushNotificationSetup (DocumentImageViewer.tsx, lines 355-821)
    settings,            \* useState settings: [newOffers, sound, vibration]
    stored,              \* localStorage notificationSettings
    native,              \* Capacitor.isNativePlatform()
    os,                  \* Capacitor.getPlatform()
    pushSetup,           \* "unmounted" | "checking" | "listening" | "failed" | "web"
    closure,             \* the settings the registered listeners closed over
    pushes,              \* foreground notifications received
    playedSounds,        \* the sounds played, in order
    toasts               \* toasts shown

vars == <<pin, error, loading, biometricAvailable, focus, platform, probe, db,
          vpc, pinValue, credentials, attemptAudits, bpc, credential,
          credentialId, resp, timers, onSuccessCount, registered>>

\* the history variables, which no action of the gate reads
history == <<failures, typed>>
allVars == <<vars, history>>

\* typed when the step was not an onChange event
NoEvent == "-"

execVars == <<authUsers, execUsers, epc, request, authData, settled, response,
              served, created>>

personnelVars == <<employeesDb, equityDb, historyDb, resolutions, employees, fetching,
                   employeesLoading,
                   isModalVisible, isPromoteModalVisible, selectedEmployee, form,
                   lastMessage, hpc, values, insertError, newId, invoked, sent, hires,
                   ppc, promoting, tpc, terminating>>

boardVars == <<isAuthorized, mounted, intervalOn, subscribed, tables, changes,
               inflight, started, metrics, latest>>

pushVars == <<settings, stored, native, os, pushSetup, closure, pushes, playedSounds,
              toasts>>

\* everything outside the access gate
notGate == <<execVars, personnelVars, boardVars, pushVars>>
\* everything outside create-executive-user
notExec == <<allVars, personnelVars, boardVars, pushVars>>
\* everything outside PersonnelManager
notPersonnel == <<allVars, execVars, boardVars, pushVars>>
\* everything outside BoardPortal
notBoard == <<allVars, execVars, personnelVars, pushVars>>
\* everything outside PushNotificationSetup
notPush == <<allVars, execVars, personnelVars, boardVars>>

\* a JSON value of the access_count column: a number, or an object
JsNumber(n) == [type |-> "number", n |-> n]

\* a row of ceo_access_credentials as provisioned out of band
ProvisionedRecord(email, plain, credId) ==
    [user_email |-> email,
     pin_hash |-> BcryptHash(plain, "salt"),
     biometric_credential_id |-> credId,
     biometric_public_key |-> IF credId = Null THEN Null ELSE PublicKeyOf(credId),
     last_access_at |-> ProvisionedAt,
     access_count |-> JsNumber(0)]

MatchingEveryRow(table, email) == table

\* .eq('user_email', email)
Matching(table, email) == {r \in table : r.user_email = email}

\* .single(): an error unless exactly one row matches
SingleFails(table, email) == Cardinality(Matching(table, email)) # 1

Pending == [kind |-> "none", rows |-> {}, id |-> Null]
Settled(kind, rows, id) == [kind |-> kind, rows |-> rows, id |-> id]

\* <input disabled={loading}>: focus() on a disabled input does nothing
FocusInput(i, disabled, current) == IF disabled THEN current ELSE i

\* a focused input that becomes disabled keeps or loses focus, by browser
AfterDisable(current) == {current, NoFocus}

GateStart ==
    /\ pin = EmptyPin
    /\ error = ""
    /\ loading = FALSE
    /\ biometricAvailable = FALSE
    /\ focus = 0
    /\ platform \in {"absent", "unsupported", "supported"}
    /\ probe = IF platform = "absent" THEN "done" ELSE "pending"
    /\ \/ db = {ProvisionedRecord(otherEmail, "222222", Null)}
       \/ \E plain \in PlainPins, c \in {Null, "AQID"} :
            db = {ProvisionedRecord(userEmail, plain, c),
                  ProvisionedRecord(otherEmail, "222222", Null)}
    /\ vpc = "idle"
    /\ pinValue = ""
    /\ credentials = {}
    /\ attemptAudits = 0
    /\ bpc = "idle"
    /\ credential = Null
    /\ credentialId = Null
    /\ resp = Pending
    /\ timers = 0
    /\ onSuccessCount = 0
    /\ registered = FALSE
    /\ failures = 0
    /\ typed = NoEvent

\* create-executive-user as deployed: one auth user with its exec_users row
ExecStart ==
    /\ authUsers = {[id |-> 0, email |-> FounderEmail]}
    /\ execUsers = {[user_id |-> 0, role |-> "ceo", access_level |-> ExecutiveLevel]}
    /\ epc = "idle"
    /\ request = [method |-> "OPTIONS", valid |-> TRUE, email |-> FounderEmail, role |-> "cfo"]
    /\ authData = NoUser
    /\ settled = "none"
    /\ response = NoResponse
    /\ served = 0
    /\ created = NoUser

\* form.resetFields()
EmptyForm == [position |-> "", equity |-> NoEquity]
NoMessage == [kind |-> "none", text |-> ""]
Employee(id, position, salary, status) ==
    [id |-> id, position |-> position, salary |-> salary, department_id |-> "ops",
     employment_status |-> status]

\* PersonnelManager as mounted (lines 40-53): one active employee in the
\* table, nothing displayed yet, the first fetchEmployees in flight
PersonnelStart ==
    /\ employeesDb = {Employee(1, "Engineer", 100, "active")}
    /\ equityDb = {}
    /\ historyDb = {}
    /\ resolutions = 0
    /\ employees = {}
    /\ fetching = 1
    /\ employeesLoading = TRUE
    /\ isModalVisible = FALSE
    /\ isPromoteModalVisible = FALSE
    /\ selectedEmployee = {}
    /\ form = EmptyForm
    /\ lastMessage = NoMessage
    /\ hpc = "idle"
    /\ values = EmptyForm
    /\ insertError = FALSE
    /\ newId = 0
    /\ invoked = <<>>
    /\ sent = <<>>
    /\ hires = 0
    /\ ppc = "idle"
    /\ promoting = {}
    /\ tpc = "idle"
    /\ terminating = {}

\* a fetch whose queries have not settled; the metrics before any fetch
Unread == [read |-> FALSE, failed |-> FALSE, orders |-> 0, employees |-> 0, pending |-> 0]
NoMetrics == [shown |-> FALSE, orders |-> 0, totalEmployees |-> 0, pendingApprovals |-> 0]

\* BoardPortal as mounted (lines 1125-1130), before useExecAuth has resolved
BoardStart ==
    /\ isAuthorized = FALSE
    /\ mounted = TRUE
    /\ intervalOn = FALSE
    /\ subscribed = FALSE
    /\ tables = [orders |-> 1, employees |-> 1, pending |-> 0]
    /\ changes = 0
    /\ inflight = {}
    /\ started = 0
    /\ metrics = NoMetrics
    /\ latest = Unread

\* lines 356-369: the initial settings
DefaultSettings == [newOffers |-> TRUE, sound |-> TRUE, vibration |-> TRUE]
\* localStorage.getItem('notificationSettings'): null, JSON, or not JSON
NothingStored == [kind |-> "null", value |-> DefaultSettings]
StoredJson(v) == [kind |-> "json", value |-> v]
StoredGarbage == [kind |-> "garbage", value |-> DefaultSettings]

\* PushNotificationSetup before its first render's effect has run
PushStart ==
    /\ settings = DefaultSettings
    /\ stored \in {NothingStored, StoredGarbage,
                   StoredJson([DefaultSettings EXCEPT !.sound = FALSE])}
    /\ native \in BOOLEAN
    /\ os \in IF native THEN {"ios", "android"} ELSE {"web"}
    /\ pushSetup = "unmounted"
    /\ closure = DefaultSettings
    /\ pushes = 0
    /\ playedSounds = <<>>
    /\ toasts = 0

\* PushNotificationSetup on the web, with nothing stored
PushAtRest ==
    /\ PushStart
    /\ ~native
    /\ stored = NothingStored

Init ==
    /\ GateStart
    /\ ExecStart
    /\ PersonnelStart
    /\ BoardStart
    /\ PushAtRest

(* --------------------------- PIN entry --------------------------------- *)
\* the user clicks (or tabs to) an enabled PIN input
ClickInput(i) ==
    /\ ~loading
    /\ focus # i
    /\ focus' = i
    /\ UNCHANGED <<pin, error, loading, biometricAvailable, platform, probe, db,
                   vpc, pinValue, credentials, attemptAudits, bpc, credential,
                   credentialId, resp,
                   timers, onSuccessCount, registered>>

RejectedByLengthOnly(value) == Len(value) > 1

\* lines 39-40: the early returns of handlePinChange
Rejected(value) == Len(value) > 1 \/ (value # "" /\ value \notin DigitChars)

ShouldSubmitAtLastIndex(newPin, index) == index = LastIndex

\* line 53: auto-submit condition
ShouldSubmit(newPin, index) == EveryFilled(newPin) /\ index = LastIndex

\* lines 47-50: auto-focus of the next input
NextFocus(index, value) == IF value # "" /\ index < LastIndex THEN index + 1 ELSE index

\* onChange of input `index` (the focused, enabled input) carrying `value`
HandlePinChange(index, value) ==
    /\ ~loading
    /\ focus = index
    /\ value # pin[index + 1]
    /\ IF Rejected(value)
       THEN UNCHANGED vars
       ELSE LET newPin == [pin EXCEPT ![index + 1] = value] IN
            /\ pin' = newPin
            /\ error' = ""
            /\ IF ShouldSubmit(newPin, index)
               THEN \* verifyPin(newPin.join('')), lines 65-66, up to its first await
                    /\ timers + onSuccessCount < MaxGrants
                    /\ loading' = TRUE
                    /\ vpc' = "fetch"
                    /\ pinValue' = Join(newPin)
                    /\ focus' \in AfterDisable(NextFocus(index, value))
               ELSE /\ focus' = NextFocus(index, value)
                    /\ UNCHANGED <<loading, vpc, pinValue>>
            /\ UNCHANGED <<biometricAvailable, platform, probe, db, credentials,
                           attemptAudits, bpc, credential, credentialId, resp, timers,
                           onSuccessCount, registered>>

\* lines 58-62: Backspace on an empty position moves focus back
HandleKeyDown(index) ==
    /\ ~loading
    /\ focus = index
    /\ pin[index + 1] = "" /\ index > 0
    /\ focus' = index - 1
    /\ UNCHANGED <<pin, error, loading, biometricAvailable, platform, probe, db,
                   vpc, pinValue, credentials, attemptAudits, bpc, credential,
                   credentialId, resp,
                   timers, onSuccessCount, registered>>

\* line 229: the alert's onClose
CloseAlert ==
    /\ error # ""
    /\ error' = ""
    /\ UNCHANGED <<pin, loading, biometricAvailable, focus, platform, probe, db,
                   vpc, pinValue, credentials, attemptAudits, bpc, credential,
                   credentialId, resp,
                   timers, onSuccessCount, registered>>

ProbeIgnored(p) == TRUE

\* line 33: PublicKeyCredential.isUserVerifyingPlatformAuthenticatorAvailable()
ProbeAnswer(p) == p = "supported"

\* lines 31-36: the capability probe settles
CheckBiometricAvailability ==
    /\ probe = "pending"
    /\ probe' = "done"
    /\ biometricAvailable' = ProbeAnswer(platform)
    /\ UNCHANGED <<pin, error, loading, focus, platform, db, vpc, pinValue,
                   credentials, attemptAudits, bpc, credential, credentialId, resp, timers,
                   onSuccessCount, registered>>

(* ------------------------ the awaited calls ---------------------------- *)
\* select(...).eq('user_email', userEmail).single() settles: the row, an
\* error object (always when no single row matches), or a rejection
SelectResponds ==
    /\ vpc = "fetch" \/ bpc = "fetch"
    /\ resp = Pending
    /\ \/ /\ ~SingleFails(db, userEmail)
          /\ resp' = Settled("ok", Matching(db, userEmail), Null)
       \/ resp' = Settled("error", {}, Null)
       \/ resp' = Settled("throw", {}, Null)
    /\ UNCHANGED <<pin, error, loading, biometricAvailable, focus, platform, probe,
                   db, vpc, pinValue, credentials, attemptAudits, bpc, credential,
                   credentialId, timers, onSuccessCount, registered>>

\* bcrypt.compare settles: with its boolean, or by rejecting
CompareResolves ==
    /\ vpc = "compare"
    /\ resp = Pending
    /\ \/ resp' = Settled("ok", {}, Null)
       \/ resp' = Settled("throw", {}, Null)
    /\ UNCHANGED <<pin, error, loading, biometricAvailable, focus, platform, probe,
                   db, vpc, pinValue, credentials, attemptAudits, bpc, credential,
                   credentialId, timers, onSuccessCount, registered>>

\* lines 89-92: the update's payload; access_count receives the un-awaited
\* query builder that supabase.rpc returns, not a number
IncrementArg == [type |-> "object", n |-> 0]
AuditPatch(row) == [row EXCEPT !.last_access_at = Now, !.access_count = IncrementArg]

\* lines 160-161: the registration's payload
BiometricPatch(row) ==
    [row EXCEPT !.biometric_credential_id = credential,
                !.biometric_public_key = PublicKeyOf(credential)]

\* update(payload).eq('user_email', userEmail) settles: applied to the
\* matching rows, refused with an error object, or rejected
UpdateResponds ==
    /\ vpc = "update" \/ bpc = "update"
    /\ resp = Pending
    /\ \/ /\ resp' = Settled("ok", {}, Null)
          /\ db' = {IF r \notin Matching(db, userEmail) THEN r
                    ELSE IF vpc = "update" THEN AuditPatch(r) ELSE BiometricPatch(r)
                    : r \in db}
       \/ /\ resp' = Settled("error", {}, Null)
          /\ db' = db
       \/ /\ resp' = Settled("throw", {}, Null)
          /\ db' = db
    /\ UNCHANGED <<pin, error, loading, biometricAvailable, focus, platform, probe,
                   vpc, pinValue, credentials, attemptAudits, bpc, credential,
                   credentialId, timers, onSuccessCount, registered>>

(* --------------------------- verifyPin --------------------------------- *)
\* verifyPin returns: its locals are gone
VerifyReturns ==
    /\ vpc' = "idle"
    /\ pinValue' = ""
    /\ credentials' = {}
    /\ attemptAudits' = 0
    /\ resp' = Pending

VerifyCaughtStillLoading ==
    /\ error' = MsgAuthError
    /\ loading' = loading
    /\ VerifyReturns
    /\ UNCHANGED <<pin, focus, timers>>

\* lines 102-107: the catch block, then setLoading(false)
VerifyCaught ==
    /\ error' = MsgAuthError
    /\ loading' = FALSE
    /\ VerifyReturns
    /\ UNCHANGED <<pin, focus, timers>>

CredentialsNeverMissing(r) == FALSE

\* line 76: fetchError || !credentials
CredentialsMissing(r) == r.kind = "error" \/ r.rows = {}

\* lines 70-83: after the fetch
VerifyAfterFetch ==
    /\ vpc = "fetch"
    /\ resp # Pending
    /\ IF resp.kind = "throw" THEN VerifyCaught
       ELSE IF CredentialsMissing(resp)
       THEN \* lines 76-80
            /\ error' = MsgNotFound
            /\ loading' = FALSE
            /\ VerifyReturns
            /\ UNCHANGED <<pin, focus, timers>>
       ELSE \* line 83: bcrypt.compare is called
            /\ credentials' = {[pin_hash |-> r.pin_hash] : r \in resp.rows}
            /\ vpc' = "compare"
            /\ resp' = Pending
            /\ UNCHANGED <<pin, error, loading, focus, timers, pinValue, attemptAudits>>
    /\ UNCHANGED <<biometricAvailable, platform, probe, db, bpc, credential,
                   credentialId, onSuccessCount, registered>>

VerifyAfterCompareLocking ==
    /\ vpc = "compare"
    /\ resp # Pending
    /\ IF resp.kind = "throw" THEN VerifyCaught
       ELSE IF \E c \in credentials : BcryptCompare(pinValue, c.pin_hash)
       THEN /\ vpc' = "update"
            /\ attemptAudits' = attemptAudits + 1
            /\ resp' = Pending
            /\ UNCHANGED <<pin, error, loading, focus, timers, pinValue, credentials>>
       ELSE /\ error' = MsgInvalidPin
            /\ pin' = EmptyPin
            /\ focus' = FocusInput(0, loading, focus)
            /\ loading' = loading
            /\ VerifyReturns
            /\ UNCHANGED timers
    /\ UNCHANGED <<biometricAvailable, platform, probe, db, bpc, credential,
                   credentialId, onSuccessCount, registered>>

\* lines 83-101: after the comparison
VerifyAfterCompare ==
    /\ vpc = "compare"
    /\ resp # Pending
    /\ IF resp.kind = "throw" THEN VerifyCaught
       ELSE IF \E c \in credentials : BcryptCompare(pinValue, c.pin_hash)
       THEN \* lines 87-93: the audit update is issued
            /\ vpc' = "update"
            /\ attemptAudits' = attemptAudits + 1
            /\ resp' = Pending
            /\ UNCHANGED <<pin, error, loading, focus, timers, pinValue, credentials>>
       ELSE \* lines 98-100 and 107
            /\ error' = MsgInvalidPin
            /\ pin' = EmptyPin
            /\ focus' = FocusInput(0, loading, focus)
            /\ loading' = FALSE
            /\ VerifyReturns
            /\ UNCHANGED timers
    /\ UNCHANGED <<biometricAvailable, platform, probe, db, bpc, credential,
                   credentialId, onSuccessCount, registered>>

\* lines 95-96 and 107: after the audit update, whose result is not read
VerifyAfterUpdate ==
    /\ vpc = "update"
    /\ resp # Pending
    /\ IF resp.kind = "throw" THEN VerifyCaught
       ELSE /\ timers' = timers + 1
            /\ loading' = FALSE
            /\ VerifyReturns
            /\ UNCHANGED <<pin, error, focus>>
    /\ UNCHANGED <<biometricAvailable, platform, probe, db, bpc, credential,
                   credentialId, onSuccessCount, registered>>

(* ----------------------- handleBiometricAuth --------------------------- *)
\* navigator.credentials.create settles: a credential, null, or a rejection
\* (cancelled, timed out, refused)
CreateResolves ==
    /\ bpc = "create"
    /\ resp = Pending
    /\ \/ \E id \in PlatformCredentialIds : resp' = Settled("ok", {}, id)
       \/ resp' = Settled("null", {}, Null)
       \/ resp' = Settled("throw", {}, Null)
    /\ UNCHANGED <<pin, error, loading, biometricAvailable, focus, platform, probe,
                   db, vpc, pinValue, credentials, attemptAudits, bpc, credential,
                   credentialId, timers, onSuccessCount, registered>>

\* navigator.credentials.get settles: an assertion, null, or a rejection
GetResolves ==
    /\ bpc = "get"
    /\ resp = Pending
    /\ \/ resp' = Settled("ok", {}, credentialId)
       \/ resp' = Settled("null", {}, Null)
       \/ resp' = Settled("throw", {}, Null)
    /\ UNCHANGED <<pin, error, loading, biometricAvailable, focus, platform, probe,
                   db, vpc, pinValue, credentials, attemptAudits, bpc, credential,
                   credentialId, timers, onSuccessCount, registered>>

HandleBiometricAuthWhileLoading ==
    /\ biometricAvailable
    /\ timers + onSuccessCount < MaxGrants
    /\ bpc = "idle"
    /\ loading' = TRUE
    /\ error' = ""
    /\ bpc' = "fetch"
    /\ focus' \in AfterDisable(focus)
    /\ UNCHANGED <<pin, biometricAvailable, platform, probe, db, vpc, pinValue,
                   credentials, attemptAudits, credential, credentialId, resp,
                   timers, onSuccessCount, registered>>

\* lines 110-112 and 116-120: a click on the rendered, enabled button, up to
\* the first await
HandleBiometricAuth ==
    /\ biometricAvailable
    /\ ~loading
    /\ timers + onSuccessCount < MaxGrants
    /\ loading' = TRUE
    /\ error' = ""
    /\ bpc' = "fetch"
    /\ focus' \in AfterDisable(focus)
    /\ UNCHANGED <<pin, biometricAvailable, platform, probe, db, vpc, pinValue,
                   credentials, attemptAudits, credential, credentialId, resp,
                   timers, onSuccessCount, registered>>

\* handleBiometricAuth and the ceremony it awaited return
BiometricReturns ==
    /\ bpc' = "idle"
    /\ credential' = Null
    /\ credentialId' = Null
    /\ resp' = Pending

\* line 122: !credentials?.biometric_credential_id
NoCredentialOnFile(rows) ==
    \A r \in rows : r.biometric_credential_id = Null \/ r.biometric_credential_id = ""

\* lines 116-134, with lines 138 and 177-181 of the ceremony it starts
BiometricAfterFetch ==
    /\ bpc = "fetch"
    /\ resp # Pending
    /\ IF resp.kind = "throw"
       THEN \* lines 129-133
            /\ error' = MsgBiometricFailed
            /\ loading' = FALSE
            /\ BiometricReturns
       ELSE IF NoCredentialOnFile(resp.rows)
       THEN \* registerBiometric: navigator.credentials.create is called
            /\ bpc' = "create"
            /\ resp' = Pending
            /\ UNCHANGED <<error, loading, credential, credentialId>>
       ELSE LET id == (CHOOSE r \in resp.rows : TRUE).biometric_credential_id IN
            IF AtobThrows(id)
            THEN \* lines 193-197: atob rejects the stored id
                 /\ error' = MsgVerifyFailed
                 /\ loading' = FALSE
                 /\ BiometricReturns
            ELSE \* authenticateBiometric: navigator.credentials.get is called
                 /\ bpc' = "get"
                 /\ credentialId' = id
                 /\ resp' = Pending
                 /\ UNCHANGED <<error, loading, credential>>
    /\ UNCHANGED <<pin, biometricAvailable, focus, platform, probe, db, vpc, pinValue,
                   credentials, attemptAudits, timers, onSuccessCount, registered>>

\* lines 155-172: after navigator.credentials.create
RegisterAfterCreate ==
    /\ bpc = "create"
    /\ resp # Pending
    /\ IF resp.kind = "throw"
       THEN /\ error' = MsgRegisterFailed
            /\ loading' = FALSE
            /\ BiometricReturns
       ELSE IF resp.kind = "null"
       THEN /\ loading' = FALSE
            /\ BiometricReturns
            /\ error' = error
       ELSE \* lines 157-163: the update storing the credential is issued
            /\ credential' = resp.id
            /\ bpc' = "update"
            /\ resp' = Pending
            /\ UNCHANGED <<error, loading, credentialId>>
    /\ UNCHANGED <<pin, biometricAvailable, focus, platform, probe, db, vpc, pinValue,
                   credentials, attemptAudits, timers, onSuccessCount, registered>>

\* lines 165-172: after the update, whose result is not read
RegisterAfterUpdate ==
    /\ bpc = "update"
    /\ resp # Pending
    /\ IF resp.kind = "throw"
       THEN /\ error' = MsgRegisterFailed
            /\ UNCHANGED <<timers, registered>>
       ELSE /\ timers' = timers + 1
            /\ registered' = TRUE
            /\ error' = error
    /\ loading' = FALSE
    /\ BiometricReturns
    /\ UNCHANGED <<pin, biometricAvailable, focus, platform, probe, db, vpc, pinValue,
                   credentials, attemptAudits, onSuccessCount>>

AuthenticateAfterGetAudited ==
    /\ bpc = "get"
    /\ resp # Pending
    /\ IF resp.kind = "throw"
       THEN /\ error' = MsgVerifyFailed
            /\ UNCHANGED <<timers, db>>
       ELSE IF resp.kind = "null"
       THEN UNCHANGED <<error, timers, db>>
       ELSE /\ timers' = timers + 1
            /\ error' = error
            /\ db' = {IF r.user_email = userEmail THEN AuditPatch(r) ELSE r : r \in db}
    /\ loading' = FALSE
    /\ BiometricReturns
    /\ UNCHANGED <<pin, biometricAvailable, focus, platform, probe, vpc, pinValue,
                   credentials, attemptAudits, onSuccessCount, registered>>

\* lines 189-197: after navigator.credentials.get
AuthenticateAfterGet ==
    /\ bpc = "get"
    /\ resp # Pending
    /\ IF resp.kind = "throw"
       THEN /\ error' = MsgVerifyFailed
            /\ timers' = timers
       ELSE IF resp.kind = "null"
       THEN UNCHANGED <<error, timers>>
       ELSE /\ timers' = timers + 1
            /\ error' = error
    /\ loading' = FALSE
    /\ BiometricReturns
    /\ UNCHANGED <<pin, biometricAvailable, focus, platform, probe, db, vpc, pinValue,
                   credentials, attemptAudits, onSuccessCount, registered>>

\* lines 96, 166, 191: a pending setTimeout fires and calls onSuccess()
TimerFires ==
    /\ timers > 0
    /\ timers' = timers - 1
    /\ onSuccessCount' = onSuccessCount + 1
    /\ UNCHANGED <<pin, error, loading, biometricAvailable, focus, platform, probe, db,
                   vpc, pinValue, credentials, attemptAudits, bpc, credential,
                   credentialId, resp,
                   registered>>

Next ==
    \/ (\E i \in 0..LastIndex : ClickInput(i)) /\ UNCHANGED <<history, notGate>>
    \/ (\E i \in 0..LastIndex : \E v \in TypedValues(i) : HandlePinChange(i, v))
         /\ UNCHANGED <<history, notGate>>
    \/ (\E i \in 0..LastIndex : HandleKeyDown(i)) /\ UNCHANGED <<history, notGate>>
    \/ CloseAlert /\ UNCHANGED <<history, notGate>>
    \/ CheckBiometricAvailability /\ UNCHANGED <<history, notGate>>
    \/ SelectResponds /\ UNCHANGED <<history, notGate>>
    \/ CompareResolves /\ UNCHANGED <<history, notGate>>
    \/ UpdateResponds /\ UNCHANGED <<history, notGate>>
    \/ VerifyAfterFetch /\ UNCHANGED <<history, notGate>>
    \/ VerifyAfterCompare /\ UNCHANGED <<history, notGate>>
    \/ VerifyAfterUpdate /\ UNCHANGED <<history, notGate>>
    \/ HandleBiometricAuth /\ UNCHANGED <<history, notGate>>
    \/ CreateResolves /\ UNCHANGED <<history, notGate>>
    \/ GetResolves /\ UNCHANGED <<history, notGate>>
    \/ BiometricAfterFetch /\ UNCHANGED <<history, notGate>>
    \/ RegisterAfterCreate /\ UNCHANGED <<history, notGate>>
    \/ RegisterAfterUpdate /\ UNCHANGED <<history, notGate>>
    \/ AuthenticateAfterGet /\ UNCHANGED <<history, notGate>>
    \/ TimerFires /\ UNCHANGED <<history, notGate>>

everything == <<allVars, notGate>>

Spec == Init /\ [][Next]_everything

(* ------------------- the gate with its history recorded ----------------- *)
\* a user who clicks only the first input and types a digit, a letter or two
\* characters into the focused one (a second digit at the last position)
RetryTyped(index) ==
    {"1", "a", "12"} \cup (IF index = LastIndex THEN {"2"} ELSE {})

\* the step's onChange value, and the run of denied PIN attempts: a return
\* of verifyPin that schedules onSuccess ends the run, any other extends it
Observe(value) ==
    /\ typed' = value
    /\ failures' = IF vpc = "idle" \/ vpc' # "idle" THEN failures
                   ELSE IF timers' = timers + 1 THEN 0
                   ELSE IF failures < MaxFailures THEN failures + 1
                   ELSE failures

RetryNext ==
    \/ ClickInput(0) /\ Observe(NoEvent) /\ UNCHANGED notGate
    \/ \E i \in 0..LastIndex : \E v \in RetryTyped(i) : HandlePinChange(i, v) /\ Observe(v) /\ UNCHANGED notGate
    \/ CloseAlert /\ Observe(NoEvent) /\ UNCHANGED notGate
    \/ CheckBiometricAvailability /\ Observe(NoEvent) /\ UNCHANGED notGate
    \/ SelectResponds /\ Observe(NoEvent) /\ UNCHANGED notGate
    \/ CompareResolves /\ Observe(NoEvent) /\ UNCHANGED notGate
    \/ UpdateResponds /\ Observe(NoEvent) /\ UNCHANGED notGate
    \/ VerifyAfterFetch /\ Observe(NoEvent) /\ UNCHANGED notGate
    \/ VerifyAfterCompare /\ Observe(NoEvent) /\ UNCHANGED notGate
    \/ VerifyAfterUpdate /\ Observe(NoEvent) /\ UNCHANGED notGate
    \/ HandleBiometricAuth /\ Observe(NoEvent) /\ UNCHANGED notGate
    \/ CreateResolves /\ Observe(NoEvent) /\ UNCHANGED notGate
    \/ GetResolves /\ Observe(NoEvent) /\ UNCHANGED notGate
    \/ BiometricAfterFetch /\ Observe(NoEvent) /\ UNCHANGED notGate
    \/ RegisterAfterCreate /\ Observe(NoEvent) /\ UNCHANGED notGate
    \/ RegisterAfterUpdate /\ Observe(NoEvent) /\ UNCHANGED notGate
    \/ AuthenticateAfterGet /\ Observe(NoEvent) /\ UNCHANGED notGate
    \/ TimerFires /\ Observe(NoEvent) /\ UNCHANGED notGate

RetrySpec == Init /\ [][RetryNext]_everything

\* every awaited backend call and platform ceremony eventually settles, and
\* the event loop eventually runs the continuation of a settled await
Fairness ==
    /\ WF_vars(SelectResponds) /\ WF_vars(CompareResolves) /\ WF_vars(UpdateResponds)
    /\ WF_vars(CreateResolves) /\ WF_vars(GetResolves)
    /\ WF_vars(VerifyAfterFetch) /\ WF_vars(VerifyAfterCompare)
    /\ WF_vars(VerifyAfterUpdate)
    /\ WF_vars(BiometricAfterFetch) /\ WF_vars(RegisterAfterCreate)
    /\ WF_vars(RegisterAfterUpdate) /\ WF_vars(AuthenticateAfterGet)

RetryLiveSpec == RetrySpec /\ Fairness

(* ------------- create-executive-user (src/unnamed/part_000) ------------- *)
\* lines 74-85 and 86-95: the response is returned
Respond(status) ==
    /\ response' = status
    /\ epc' = "idle"
    /\ served' = served + 1
    /\ settled' = "none"
    /\ authData' = NoUser

\* lines 18-35: a request arrives; OPTIONS is answered at once (status 200 by
\* default), a body req.json() rejects is answered from the catch, any other
\* request calls auth.admin.createUser
Serve(method, valid, email, role) ==
    /\ epc = "idle"
    /\ served < MaxRequests
    /\ request' = [method |-> method, valid |-> valid, email |-> email, role |-> role]
    /\ created' = NoUser
    /\ IF method = "OPTIONS" THEN Respond(StatusOk)
       ELSE IF ~valid THEN Respond(StatusError)
       ELSE /\ epc' = "createUser"
            /\ response' = NoResponse
            /\ UNCHANGED <<served, settled, authData>>
    /\ UNCHANGED <<authUsers, execUsers>>

\* auth.admin.createUser settles: the user is created (the email was free),
\* an error object, no error and no user, or a rejection
CreateUserSettles ==
    /\ epc = "createUser"
    /\ settled = "none"
    /\ \/ /\ \A u \in authUsers : u.email # request.email
          /\ authUsers' = authUsers \cup {[id |-> served + 1, email |-> request.email]}
          /\ created' = served + 1
          /\ settled' = "ok"
       \/ /\ settled' \in {"error", "nouser", "throw"}
          /\ UNCHANGED <<authUsers, created>>
    /\ UNCHANGED <<execUsers, epc, request, authData, response, served>>

\* lines 47-63: after createUser
AfterCreateUser ==
    /\ epc = "createUser"
    /\ settled # "none"
    /\ IF settled = "ok"
       THEN /\ authData' = created
            /\ epc' = "insert"
            /\ settled' = "none"
            /\ UNCHANGED <<response, served>>
       ELSE Respond(StatusError)
    /\ UNCHANGED <<authUsers, execUsers, request, created>>

\* from('exec_users').insert(...).select().single() settles: the row is
\* inserted, an error object, or a rejection
InsertSettles ==
    /\ epc = "insert"
    /\ settled = "none"
    /\ \/ /\ execUsers' = execUsers \cup {[user_id |-> authData, role |-> request.role,
                                            access_level |-> ExecutiveLevel]}
          /\ settled' = "ok"
       \/ /\ settled' \in {"error", "throw"}
          /\ UNCHANGED execUsers
    /\ UNCHANGED <<authUsers, epc, request, authData, response, served, created>>

\* lines 65-85: after the insert
AfterInsert ==
    /\ epc = "insert"
    /\ settled # "none"
    /\ IF settled = "ok" THEN Respond(StatusOk)
       ELSE IF settled = "throw" THEN Respond(StatusError)
       ELSE \* line 68: auth.admin.deleteUser is called
            /\ epc' = "deleteUser"
            /\ settled' = "none"
            /\ UNCHANGED <<response, served, authData>>
    /\ UNCHANGED <<authUsers, execUsers, request, created>>

\* auth.admin.deleteUser settles: the user is deleted, an error object, or a
\* rejection
DeleteUserSettles ==
    /\ epc = "deleteUser"
    /\ settled = "none"
    /\ \/ /\ authUsers' = {u \in authUsers : u.id # authData}
          /\ settled' = "ok"
       \/ /\ settled' \in {"error", "throw"}
          /\ UNCHANGED authUsers
    /\ UNCHANGED <<execUsers, epc, request, authData, response, served, created>>

\* lines 68-69 and 86-95: deleteUser's result is not read; execError (or
\* deleteUser's rejection) is thrown to the catch
AfterDeleteUser ==
    /\ epc = "deleteUser"
    /\ settled # "none"
    /\ Respond(StatusError)
    /\ UNCHANGED <<authUsers, execUsers, request, created>>

\* the access gate where no biometric option exists and the user has no record
GateAtRest ==
    /\ GateStart
    /\ platform = "absent"
    /\ Cardinality(db) = 1

ExecInit ==
    /\ GateAtRest
    /\ ExecStart
    /\ PersonnelStart
    /\ BoardStart
    /\ PushAtRest

ExecNext ==
    \/ (\E m \in Methods, valid \in BOOLEAN, e \in Emails, r \in Roles : Serve(m, valid, e, r))
         /\ UNCHANGED notExec
    \/ CreateUserSettles /\ UNCHANGED notExec
    \/ AfterCreateUser /\ UNCHANGED notExec
    \/ InsertSettles /\ UNCHANGED notExec
    \/ AfterInsert /\ UNCHANGED notExec
    \/ DeleteUserSettles /\ UNCHANGED notExec
    \/ AfterDeleteUser /\ UNCHANGED notExec

ExecSpec == ExecInit /\ [][ExecNext]_everything

(* ------- PersonnelManager (src/src/components/ceo/PersonnelManager.tsx) -- *)
\* line 119: /chief|ceo|cfo|cto|coo|president/i.test(values.position)
IsCLevel(position) == position \in MatchesCLevel
\* lines 122, 235: values.equity && values.equity > 0
HasEquity(v) == v.equity # NoEquity /\ v.equity > 0
\* lines 251, 183: values.position.toLowerCase().includes('ceo')
IsCeo(position) == position \in IncludesCeo

\* lines 235-266: the document sent after `doc`, "" when none is left
NextDoc(doc, v) ==
    IF doc = BoardResolutionDoc THEN OfferLetterDoc
    ELSE IF doc = OfferLetterDoc
    THEN IF IsCLevel(v.position) /\ HasEquity(v) THEN EquityAgreementDoc
         ELSE IF IsCeo(v.position) THEN FoundersAgreementDoc ELSE ""
    ELSE IF doc = EquityAgreementDoc
    THEN IF IsCeo(v.position) THEN FoundersAgreementDoc ELSE ""
    ELSE ""

\* lines 267-271: documentsSent
DocumentsSent(v) ==
    IF IsCLevel(v.position)
    THEN IF IsCeo(v.position) THEN DocsAll ELSE DocsEquity
    ELSE DocsBasic

\* handlers and list fetches in flight
Busy(pc) == IF pc = "idle" THEN 0 ELSE 1
InFlight == fetching + Busy(hpc) + Busy(ppc) + Busy(tpc)

\* line 518: the Hire button
OpenHire ==
    /\ ~isModalVisible /\ ~isPromoteModalVisible
    /\ isModalVisible' = TRUE
    /\ UNCHANGED <<employeesDb, equityDb, historyDb, resolutions, employees, fetching,
                   employeesLoading, isPromoteModalVisible, selectedEmployee, form,
                   lastMessage, hpc, values, insertError, newId, invoked, sent, hires,
                   ppc, promoting, tpc, terminating>>

\* lines 574-577 and 750-753: the hire modal is cancelled
CancelHire ==
    /\ isModalVisible
    /\ isModalVisible' = FALSE
    /\ form' = EmptyForm
    /\ UNCHANGED <<employeesDb, equityDb, historyDb, resolutions, employees, fetching,
                   employeesLoading, isPromoteModalVisible, selectedEmployee,
                   lastMessage, hpc, values, insertError, newId, invoked, sent, hires,
                   ppc, promoting, tpc, terminating>>

\* line 581: the filled hire form is submitted; handleHire runs to its first
\* await (line 94)
SubmitHire(position, equity) ==
    /\ isModalVisible
    /\ hpc = "idle"
    /\ hires < MaxHires
    /\ InFlight < MaxInFlight
    /\ form' = [position |-> position, equity |-> equity]
    /\ values' = [position |-> position, equity |-> equity]
    /\ hpc' = "getUser"
    /\ insertError' = FALSE
    /\ newId' = 0
    /\ invoked' = <<>>
    /\ sent' = <<>>
    /\ hires' = hires + 1
    /\ UNCHANGED <<employeesDb, equityDb, historyDb, resolutions, employees, fetching,
                   employeesLoading, isModalVisible, isPromoteModalVisible,
                   selectedEmployee, lastMessage, ppc, promoting, tpc, terminating>>

\* lines 277-280: the outer catch
HireCaught ==
    /\ lastMessage' = [kind |-> "error", text |-> "Failed to hire employee"]
    /\ hpc' = "idle"

\* lines 273-275: the modal closes, the form is reset, the list is refetched
HireCloses ==
    /\ isModalVisible' = FALSE
    /\ form' = EmptyForm
    /\ fetching' = fetching + 1
    /\ employeesLoading' = TRUE
    /\ hpc' = "idle"

\* line 94: auth.getUser settles
HireGetUser ==
    /\ hpc = "getUser"
    /\ \/ hpc' = "insert" /\ UNCHANGED lastMessage
       \/ HireCaught
    /\ UNCHANGED <<employeesDb, equityDb, historyDb, resolutions, employees, fetching,
                   employeesLoading, isModalVisible, isPromoteModalVisible,
                   selectedEmployee, form, values, insertError, newId, invoked, sent,
                   hires, ppc, promoting, tpc, terminating>>

HireInsertSettlesUnchecked ==
    /\ hpc = "insert"
    /\ \/ /\ employeesDb' = employeesDb \cup
                {Employee(Cardinality(employeesDb) + 1, values.position, 100, "active")}
          /\ newId' = Cardinality(employeesDb) + 1
          /\ hpc' = IF IsCLevel(values.position) /\ HasEquity(values)
                    THEN "equity" ELSE "history"
          /\ UNCHANGED <<insertError, lastMessage>>
       \/ /\ insertError' = TRUE
          /\ hpc' = IF IsCLevel(values.position) /\ HasEquity(values)
                    THEN "equity" ELSE "history"
          /\ UNCHANGED <<employeesDb, newId, lastMessage>>
       \/ /\ HireCaught
          /\ UNCHANGED <<employeesDb, newId, insertError>>
    /\ UNCHANGED <<equityDb, historyDb, resolutions, employees, fetching,
                   employeesLoading, isModalVisible, isPromoteModalVisible,
                   selectedEmployee, form, values, invoked, sent, hires, ppc,
                   promoting, tpc, terminating>>

\* lines 96-122: from('employees').insert([...]).select() settles: the row
\* is inserted, an error object (thrown at line 116), or a rejection
HireInsertSettles ==
    /\ hpc = "insert"
    /\ \/ /\ employeesDb' = employeesDb \cup
                {Employee(Cardinality(employeesDb) + 1, values.position, 100, "active")}
          /\ newId' = Cardinality(employeesDb) + 1
          /\ hpc' = IF IsCLevel(values.position) /\ HasEquity(values)
                    THEN "equity" ELSE "history"
          /\ UNCHANGED <<insertError, lastMessage>>
       \/ /\ insertError' = TRUE
          /\ HireCaught
          /\ UNCHANGED <<employeesDb, newId>>
       \/ /\ HireCaught
          /\ UNCHANGED <<employeesDb, newId, insertError>>
    /\ UNCHANGED <<equityDb, historyDb, resolutions, employees, fetching,
                   employeesLoading, isModalVisible, isPromoteModalVisible,
                   selectedEmployee, form, values, invoked, sent, hires, ppc,
                   promoting, tpc, terminating>>

\* lines 132-143: the employee_equity insert settles; its result is not read
HireEquitySettles ==
    /\ hpc = "equity"
    /\ \/ /\ equityDb' = equityDb \cup {newId}
          /\ hpc' = "history"
          /\ UNCHANGED lastMessage
       \/ /\ hpc' = "history"
          /\ UNCHANGED <<equityDb, lastMessage>>
       \/ /\ HireCaught
          /\ UNCHANGED equityDb
    /\ UNCHANGED <<employeesDb, historyDb, resolutions, employees, fetching,
                   employeesLoading, isModalVisible, isPromoteModalVisible,
                   selectedEmployee, form, values, insertError, newId, invoked, sent,
                   hires, ppc, promoting, tpc, terminating>>

\* lines 143-157: the employee_history insert settles; its result is not read
HireHistorySettles ==
    /\ hpc = "history"
    /\ \/ /\ historyDb' = historyDb \cup {[employee_id |-> newId, action_type |-> "hired"]}
          /\ hpc' = "resolution"
          /\ UNCHANGED lastMessage
       \/ /\ hpc' = "resolution"
          /\ UNCHANGED <<historyDb, lastMessage>>
       \/ /\ HireCaught
          /\ UNCHANGED historyDb
    /\ UNCHANGED <<employeesDb, equityDb, resolutions, employees, fetching,
                   employeesLoading, isModalVisible, isPromoteModalVisible,
                   selectedEmployee, form, values, insertError, newId, invoked, sent,
                   hires, ppc, promoting, tpc, terminating>>

\* lines 192-210: the board_resolutions insert settles (result not read) and
\* send-board-resolution is invoked
HireResolutionSettles ==
    /\ hpc = "resolution"
    /\ \/ /\ resolutions' = resolutions + 1
          /\ hpc' = "send"
          /\ invoked' = <<BoardResolutionDoc>>
          /\ UNCHANGED lastMessage
       \/ /\ hpc' = "send"
          /\ invoked' = <<BoardResolutionDoc>>
          /\ UNCHANGED <<resolutions, lastMessage>>
       \/ /\ HireCaught
          /\ UNCHANGED <<resolutions, invoked>>
    /\ UNCHANGED <<employeesDb, equityDb, historyDb, employees, fetching,
                   employeesLoading, isModalVisible, isPromoteModalVisible,
                   selectedEmployee, form, values, insertError, newId, sent, hires,
                   ppc, promoting, tpc, terminating>>

\* lines 267-271: the message naming the documents
HireSucceeds ==
    /\ lastMessage' = [kind |-> "success", text |-> DocumentsSent(values)]
    /\ HireCloses
    /\ UNCHANGED invoked

\* lines 195-276: a functions.invoke call settles: the document is sent, an
\* error object (not read), or a rejection; then the next document's
\* function is invoked, or the handler finishes
HireSendSettles ==
    /\ hpc = "send"
    /\ LET doc == invoked[Len(invoked)]
           next == NextDoc(doc, values)
       IN \/ /\ sent' = Append(sent, doc)
             /\ IF next # ""
                THEN /\ invoked' = Append(invoked, next)
                     /\ UNCHANGED <<lastMessage, isModalVisible, form, fetching,
                                    employeesLoading, hpc>>
                ELSE HireSucceeds
          \/ /\ sent' = sent
             /\ IF next # ""
                THEN /\ invoked' = Append(invoked, next)
                     /\ UNCHANGED <<lastMessage, isModalVisible, form, fetching,
                                    employeesLoading, hpc>>
                ELSE HireSucceeds
          \/ \* lines 272-275: the inner catch
             /\ lastMessage' = [kind |-> "success", text |-> "(Some documents failed to send)"]
             /\ HireCloses
             /\ UNCHANGED <<sent, invoked>>
    /\ UNCHANGED <<employeesDb, equityDb, historyDb, resolutions, employees,
                   isPromoteModalVisible, selectedEmployee, values, insertError, newId,
                   hires, ppc, promoting, tpc, terminating>>

\* lines 462-476: Promote, rendered for a listed row whose status is 'active'
StartPromote(r) ==
    /\ r \in employees
    /\ r.employment_status = "active"
    /\ ~isModalVisible /\ ~isPromoteModalVisible
    /\ selectedEmployee' = {r}
    /\ isPromoteModalVisible' = TRUE
    /\ UNCHANGED <<employeesDb, equityDb, historyDb, resolutions, employees, fetching,
                   employeesLoading, isModalVisible, form, lastMessage, hpc, values,
                   insertError, newId, invoked, sent, hires, ppc, promoting, tpc,
                   terminating>>

\* lines 768-772 and 824-828: the promote modal is cancelled
CancelPromote ==
    /\ isPromoteModalVisible
    /\ isPromoteModalVisible' = FALSE
    /\ selectedEmployee' = {}
    /\ UNCHANGED <<employeesDb, equityDb, historyDb, resolutions, employees, fetching,
                   employeesLoading, isModalVisible, form, lastMessage, hpc, values,
                   insertError, newId, invoked, sent, hires, ppc, promoting, tpc,
                   terminating>>

\* lines 282-286: the promote form is submitted; handlePromote returns at
\* once without a selected employee, else runs to its first await
SubmitPromote(position, salary) ==
    /\ isPromoteModalVisible
    /\ ppc = "idle"
    /\ InFlight < MaxInFlight
    /\ IF selectedEmployee = {}
       THEN UNCHANGED <<ppc, promoting>>
       ELSE /\ ppc' = "getUser"
            /\ promoting' = {[employee |-> r, new_position |-> position,
                              new_salary |-> salary] : r \in selectedEmployee}
    /\ UNCHANGED <<employeesDb, equityDb, historyDb, resolutions, employees, fetching,
                   employeesLoading, isModalVisible, isPromoteModalVisible,
                   selectedEmployee, form, lastMessage, hpc, values, insertError,
                   newId, invoked, sent, hires, tpc, terminating>>

\* lines 321-324: the catch of handlePromote
PromoteCaught ==
    /\ lastMessage' = [kind |-> "error", text |-> "Failed to promote employee"]
    /\ ppc' = "idle"
    /\ promoting' = {}

\* line 286: auth.getUser settles
PromoteGetUser ==
    /\ ppc = "getUser"
    /\ \/ ppc' = "update" /\ UNCHANGED <<lastMessage, promoting>>
       \/ PromoteCaught
    /\ UNCHANGED <<employeesDb, equityDb, historyDb, resolutions, employees, fetching,
                   employeesLoading, isModalVisible, isPromoteModalVisible,
                   selectedEmployee, form, hpc, values, insertError, newId, invoked,
                   sent, hires, tpc, terminating>>

\* lines 288-297: update({position, salary, department_id}).eq('id', ...)
\* settles: applied to the row with that id, an error object, or a rejection
PromoteUpdateSettles ==
    /\ ppc = "update"
    /\ \/ /\ employeesDb' =
                {IF \E p \in promoting : p.employee.id = r.id
                 THEN LET p == CHOOSE p \in promoting : p.employee.id = r.id IN
                      [r EXCEPT !.position = p.new_position,
                                !.salary = p.new_salary,
                                !.department_id = p.employee.department_id]
                 ELSE r : r \in employeesDb}
          /\ ppc' = "history"
          /\ UNCHANGED <<lastMessage, promoting>>
       \/ /\ PromoteCaught
          /\ UNCHANGED employeesDb
    /\ UNCHANGED <<equityDb, historyDb, resolutions, employees, fetching,
                   employeesLoading, isModalVisible, isPromoteModalVisible,
                   selectedEmployee, form, hpc, values, insertError, newId, invoked,
                   sent, hires, tpc, terminating>>

\* lines 300-320: the employee_history insert settles (result not read); the
\* modal closes and the list is refetched
PromoteHistorySettles ==
    /\ ppc = "history"
    /\ \/ /\ historyDb' \in
                {historyDb,
                 historyDb \cup {[employee_id |-> p.employee.id, action_type |-> "promoted"]
                                 : p \in promoting}}
          /\ lastMessage' = [kind |-> "success", text |-> "promoted successfully!"]
          /\ isPromoteModalVisible' = FALSE
          /\ selectedEmployee' = {}
          /\ fetching' = fetching + 1
          /\ employeesLoading' = TRUE
          /\ ppc' = "idle"
          /\ promoting' = {}
       \/ /\ PromoteCaught
          /\ UNCHANGED <<historyDb, isPromoteModalVisible, selectedEmployee, fetching,
                         employeesLoading>>
    /\ UNCHANGED <<employeesDb, equityDb, resolutions, employees, isModalVisible, form,
                   hpc, values, insertError, newId, invoked, sent, hires, tpc,
                   terminating>>

\* lines 477-487: Terminate is confirmed for a listed row whose status is
\* 'active'; handleTerminate runs to its first await
ConfirmTerminate(r) ==
    /\ r \in employees
    /\ r.employment_status = "active"
    /\ ~isModalVisible /\ ~isPromoteModalVisible
    /\ tpc = "idle"
    /\ InFlight < MaxInFlight
    /\ tpc' = "getUser"
    /\ terminating' = {r}
    /\ UNCHANGED <<employeesDb, equityDb, historyDb, resolutions, employees, fetching,
                   employeesLoading, isModalVisible, isPromoteModalVisible,
                   selectedEmployee, form, lastMessage, hpc, values, insertError,
                   newId, invoked, sent, hires, ppc, promoting>>

\* lines 354-357: the catch of handleTerminate
TerminateCaught ==
    /\ lastMessage' = [kind |-> "error", text |-> "Failed to terminate employee"]
    /\ tpc' = "idle"
    /\ terminating' = {}

\* line 329: auth.getUser settles
TerminateGetUser ==
    /\ tpc = "getUser"
    /\ \/ tpc' = "update" /\ UNCHANGED <<lastMessage, terminating>>
       \/ TerminateCaught
    /\ UNCHANGED <<employeesDb, equityDb, historyDb, resolutions, employees, fetching,
                   employeesLoading, isModalVisible, isPromoteModalVisible,
                   selectedEmployee, form, hpc, values, insertError, newId, invoked,
                   sent, hires, ppc, promoting>>

\* lines 331-340: update({employment_status: 'terminated', ...}).eq('id', ...)
\* settles
TerminateUpdateSettles ==
    /\ tpc = "update"
    /\ \/ /\ employeesDb' =
                {IF \E t \in terminating : t.id = r.id
                 THEN [r EXCEPT !.employment_status = "terminated"]
                 ELSE r : r \in employeesDb}
          /\ tpc' = "history"
          /\ UNCHANGED <<lastMessage, terminating>>
       \/ /\ TerminateCaught
          /\ UNCHANGED employeesDb
    /\ UNCHANGED <<equityDb, historyDb, resolutions, employees, fetching,
                   employeesLoading, isModalVisible, isPromoteModalVisible,
                   selectedEmployee, form, hpc, values, insertError, newId, invoked,
                   sent, hires, ppc, promoting>>

\* lines 343-353: the employee_history insert settles (result not read); the
\* list is refetched
TerminateHistorySettles ==
    /\ tpc = "history"
    /\ \/ /\ historyDb' \in
                {historyDb,
                 historyDb \cup {[employee_id |-> t.id, action_type |-> "terminated"]
                                 : t \in terminating}}
          /\ lastMessage' = [kind |-> "success", text |-> "has been terminated"]
          /\ fetching' = fetching + 1
          /\ employeesLoading' = TRUE
          /\ tpc' = "idle"
          /\ terminating' = {}
       \/ /\ TerminateCaught
          /\ UNCHANGED <<historyDb, fetching, employeesLoading>>
    /\ UNCHANGED <<employeesDb, equityDb, resolutions, employees, isModalVisible,
                   isPromoteModalVisible, selectedEmployee, form, hpc, values,
                   insertError, newId, invoked, sent, hires, ppc, promoting>>

\* lines 69-89: a fetchEmployees call settles: the rows are displayed, or the
\* error is reported; loading is cleared either way
FetchEmployeesSettles ==
    /\ fetching > 0
    /\ fetching' = fetching - 1
    /\ employeesLoading' = FALSE
    /\ \/ employees' = employeesDb /\ UNCHANGED lastMessage
       \/ /\ lastMessage' = [kind |-> "error", text |-> "Failed to load employees"]
          /\ UNCHANGED employees
    /\ UNCHANGED <<employeesDb, equityDb, historyDb, resolutions, isModalVisible,
                   isPromoteModalVisible, selectedEmployee, form, hpc, values,
                   insertError, newId, invoked, sent, hires, ppc, promoting, tpc,
                   terminating>>

PersonnelInit ==
    /\ GateAtRest
    /\ ExecStart
    /\ PersonnelStart
    /\ BoardStart
    /\ PushAtRest

\* hiring: the hire modal, handleHire and the list fetches
HireNext ==
    \/ OpenHire /\ UNCHANGED notPersonnel
    \/ CancelHire /\ UNCHANGED notPersonnel
    \/ (\E p \in Positions, e \in Equities : SubmitHire(p, e)) /\ UNCHANGED notPersonnel
    \/ HireGetUser /\ UNCHANGED notPersonnel
    \/ HireInsertSettles /\ UNCHANGED notPersonnel
    \/ HireEquitySettles /\ UNCHANGED notPersonnel
    \/ HireHistorySettles /\ UNCHANGED notPersonnel
    \/ HireResolutionSettles /\ UNCHANGED notPersonnel
    \/ HireSendSettles /\ UNCHANGED notPersonnel
    \/ FetchEmployeesSettles /\ UNCHANGED notPersonnel

HireSpec == PersonnelInit /\ [][HireNext]_everything

\* the listed staff: promotion, termination and the list fetches
StaffNext ==
    \/ (\E r \in employees : StartPromote(r)) /\ UNCHANGED notPersonnel
    \/ CancelPromote /\ UNCHANGED notPersonnel
    \/ SubmitPromote("Director", 200) /\ UNCHANGED notPersonnel
    \/ PromoteGetUser /\ UNCHANGED notPersonnel
    \/ PromoteUpdateSettles /\ UNCHANGED notPersonnel
    \/ PromoteHistorySettles /\ UNCHANGED notPersonnel
    \/ (\E r \in employees : ConfirmTerminate(r)) /\ UNCHANGED notPersonnel
    \/ TerminateGetUser /\ UNCHANGED notPersonnel
    \/ TerminateUpdateSettles /\ UNCHANGED notPersonnel
    \/ TerminateHistorySettles /\ UNCHANGED notPersonnel
    \/ FetchEmployeesSettles /\ UNCHANGED notPersonnel

StaffSpec == PersonnelInit /\ [][StaffNext]_everything

(* ---- BoardPortal (restaurant-onboarding/.../DocumentImageViewer.tsx) ---- *)
\* fetchDashboardMetrics is called and runs to its await (line 1189)
StartFetch ==
    /\ started' = started + 1
    /\ inflight' = inflight \cup {[n |-> started + 1, data |-> Unread]}
    /\ latest' = Unread

\* lines 1213-1231: the metrics a fetch displays, zeros from the catch
MetricsOf(data) ==
    IF data.failed
    THEN [shown |-> TRUE, orders |-> 0, totalEmployees |-> 0, pendingApprovals |-> 0]
    ELSE [shown |-> TRUE, orders |-> data.orders, totalEmployees |-> data.employees,
          pendingApprovals |-> data.pending]

\* lines 1132-1178: useExecAuth authorizes; the effect runs: first fetch,
\* interval, subscription
Authorize ==
    /\ mounted
    /\ ~isAuthorized
    /\ started < MaxFetches
    /\ isAuthorized' = TRUE
    /\ StartFetch
    /\ intervalOn' = TRUE
    /\ subscribed' = TRUE
    /\ UNCHANGED <<mounted, tables, changes, metrics>>

\* lines 1179-1184: isAuthorized turns false; the effect's cleanup runs
Deauthorize ==
    /\ mounted
    /\ isAuthorized
    /\ isAuthorized' = FALSE
    /\ intervalOn' = FALSE
    /\ subscribed' = FALSE
    /\ UNCHANGED <<mounted, tables, changes, inflight, started, metrics, latest>>

\* lines 1179-1182: the component unmounts; the cleanup runs if the effect
\* had set anything up
Unmount ==
    /\ mounted
    /\ mounted' = FALSE
    /\ intervalOn' = FALSE
    /\ subscribed' = FALSE
    /\ UNCHANGED <<isAuthorized, tables, changes, inflight, started, metrics, latest>>

\* lines 1137-1139: the interval fires
IntervalFires ==
    /\ intervalOn
    /\ started < MaxFetches
    /\ StartFetch
    /\ UNCHANGED <<isAuthorized, mounted, intervalOn, subscribed, tables, changes,
                   metrics>>

\* lines 1142-1177: a row of one of the three tables changes; the subscribed
\* channel calls fetchDashboardMetrics
ChangeEvent(table) ==
    /\ changes < MaxChanges
    /\ changes' = changes + 1
    /\ tables' = [tables EXCEPT ![table] = tables[table] + 1]
    /\ IF subscribed
       THEN started < MaxFetches /\ StartFetch
       ELSE UNCHANGED <<started, inflight, latest>>
    /\ UNCHANGED <<isAuthorized, mounted, intervalOn, subscribed, metrics>>

\* line 1189: the three queries of a call settle: with the rows as they are
\* now, or by rejecting
QueriesSettle(f) ==
    /\ f \in inflight
    /\ ~f.data.read
    /\ \E failed \in BOOLEAN :
         LET data == [read |-> TRUE, failed |-> failed, orders |-> tables.orders,
                      employees |-> tables.employees, pending |-> tables.pending]
         IN /\ inflight' = (inflight \ {f}) \cup {[n |-> f.n, data |-> data]}
            /\ latest' = IF f.n = started THEN data ELSE latest
    /\ UNCHANGED <<isAuthorized, mounted, intervalOn, subscribed, tables, changes,
                   started, metrics>>

\* lines 1195-1231: the continuation of a call runs setMetrics (which does
\* nothing once the component has unmounted)
FetchDelivers(f) ==
    /\ f \in inflight
    /\ f.data.read
    /\ inflight' = inflight \ {f}
    /\ metrics' = IF mounted THEN MetricsOf(f.data) ELSE metrics
    /\ UNCHANGED <<isAuthorized, mounted, intervalOn, subscribed, tables, changes,
                   started, latest>>

BoardInit ==
    /\ GateAtRest
    /\ ExecStart
    /\ PersonnelStart
    /\ BoardStart
    /\ PushAtRest

BoardNext ==
    \/ Authorize /\ UNCHANGED notBoard
    \/ Deauthorize /\ UNCHANGED notBoard
    \/ Unmount /\ UNCHANGED notBoard
    \/ IntervalFires /\ UNCHANGED notBoard
    \/ (\E t \in {"orders", "employees", "pending"} : ChangeEvent(t)) /\ UNCHANGED notBoard
    \/ (\E f \in inflight : QueriesSettle(f)) /\ UNCHANGED notBoard
    \/ (\E f \in inflight : FetchDelivers(f)) /\ UNCHANGED notBoard

BoardSpec == BoardInit /\ [][BoardNext]_everything

(* -- PushNotificationSetup (restaurant-onboarding/.../DocumentImageViewer.tsx) -- *)
\* lines 517-527: loadSettings
Loaded(current) == IF stored.kind = "json" THEN stored.value ELSE current

\* lines 396-399: the effect of the first render: checkNotificationSupport
\* runs to its await (native) or to its end (web), then loadSettings; the
\* functions called are those of the first render, whose settings are the
\* initial ones
MountPush ==
    /\ pushSetup = "unmounted"
    /\ pushSetup' = IF native THEN "checking" ELSE "web"
    /\ closure' = settings
    /\ settings' = Loaded(settings)
    /\ UNCHANGED <<stored, native, os, pushes, playedSounds, toasts>>

\* lines 406-423: PushNotifications.checkPermissions settles; on success the
\* listeners of setupNativePushNotifications are added
CheckPermissionsSettles ==
    /\ pushSetup = "checking"
    /\ pushSetup' \in {"listening", "failed"}
    /\ UNCHANGED <<settings, stored, native, os, closure, pushes, playedSounds, toasts>>

\* line 477: settings.sound, read from the settings the listener closed over
PlaysWhen(listenerSettings) == listenerSettings.sound

\* lines 473-490: a push notification is received in the foreground
PushReceived ==
    /\ pushSetup = "listening"
    /\ pushes < MaxPushes
    /\ pushes' = pushes + 1
    /\ playedSounds' = IF PlaysWhen(closure)
                       THEN Append(playedSounds, IF os = "ios" THEN "custom" ELSE "default")
                       ELSE playedSounds
    /\ toasts' = toasts + 1
    /\ UNCHANGED <<settings, stored, native, os, pushSetup, closure>>

\* lines 529-532 and 818-821: updateSetting(key, value) and saveSettings
UpdateSetting(key, value) ==
    /\ pushSetup # "unmounted"
    /\ settings[key] # value
    /\ settings' = [settings EXCEPT ![key] = value]
    /\ stored' = StoredJson([settings EXCEPT ![key] = value])
    /\ UNCHANGED <<native, os, pushSetup, closure, pushes, playedSounds, toasts>>

PushInit ==
    /\ GateAtRest
    /\ ExecStart
    /\ PersonnelStart
    /\ BoardStart
    /\ PushStart

PushNext ==
    \/ MountPush /\ UNCHANGED notPush
    \/ CheckPermissionsSettles /\ UNCHANGED notPush
    \/ PushReceived /\ UNCHANGED notPush
    \/ (\E k \in {"newOffers", "sound", "vibration"}, v \in BOOLEAN : UpdateSetting(k, v))
         /\ UNCHANGED notPush

PushSpec == PushInit /\ [][PushNext]_everything

(* ------------------------------ claims --------------------------------- *)
\* the plaintext PINs the user's stored hash was generated from
ProvisionedPins == {p \in PlainPins :
                      \E r \in Matching(db, userEmail) : r.pin_hash = BcryptHash(p, "salt")}

\* a step in which verifyPin returns
VerifyEnds == vpc # "idle" /\ vpc' = "idle"

\* C1: when the user's record exists and the awaited calls succeed, a PIN
\* verification schedules onSuccess if and only if the submitted PIN is the
\* one the stored hash was generated from.
C1_GrantIffPinMatches ==
    [][(VerifyEnds /\ resp.kind = "ok" /\ ~SingleFails(db, userEmail))
         => /\ Len(pinValue) = PinLen
            /\ (timers' = timers + 1) <=> (pinValue \in ProvisionedPins)
            /\ (timers' = timers) <=> (pinValue \notin ProvisionedPins)]_vars

\* a grant by PIN (no biometric option exists) followed by a denial of a wrong PIN
C1_Witness ==
    /\ platform = "absent"
    /\ timers + onSuccessCount = 1
    /\ error = MsgInvalidPin
    /\ vpc = "idle"

\* C2: a lookup that finds no record, or returns an error, ends the attempt
\* with "Access credentials not found": no comparison, no audit update, no
\* success callback scheduled, whatever PIN was entered; and while the user
\* has no record no attempt ever compares, audits or schedules the callback.
C2_UnknownIdentifierNotFound ==
    [][/\ (vpc = "fetch" /\ vpc' # "fetch" /\ resp.kind # "throw"
             /\ (resp.kind = "error" \/ SingleFails(db, userEmail)))
         => /\ error' = MsgNotFound
            /\ vpc' = "idle"
            /\ ~loading'
            /\ attemptAudits = 0
            /\ timers' = timers
            /\ db' = db
       /\ (vpc # "idle" /\ SingleFails(db, userEmail))
         => /\ vpc' \in {"fetch", "idle"}
            /\ timers' <= timers
            /\ attemptAudits' = 0
            /\ db' = db]_vars

\* the not-found outcome for a user without a record, after a full PIN
C2_Witness ==
    /\ SingleFails(db, userEmail)
    /\ error = MsgNotFound
    /\ EveryFilled(pin)
    /\ vpc = "idle"
    /\ timers = 0 /\ onSuccessCount = 0

\* C3: onSuccess is invoked at most once on one mounted gate.
C3_OnSuccessAtMostOnce == onSuccessCount <= 1

\* C4: after any failed PIN attempt (wrong PIN, credentials not found, error
\* thrown) the PIN entry is six empty positions and focus is on the first.
C4_FailedAttemptResetsEntry ==
    [][(VerifyEnds /\ error' # "") => (pin' = EmptyPin /\ focus' = 0)]_vars

\* C5: a verification call is issued only with all six positions filled, and
\* with their concatenation as its argument.
C5_NoCallWhileIncomplete ==
    [][(vpc = "idle" /\ vpc' # "idle")
         => /\ vpc' = "fetch"
            /\ Len(pin') = PinLen
            /\ EveryFilled(pin')
            /\ pinValue' = Join(pin')
            /\ Len(pinValue') = PinLen]_vars

\* a call in flight whose last digit differed from the others
C5_Witness ==
    /\ vpc = "fetch"
    /\ pinValue = "111112"
    /\ loading

\* C6: each time the six positions become all filled, whichever position
\* receives the last digit, exactly one verification call is issued.
C6_OneCallPerCompletedSequence ==
    [][(~EveryFilled(pin) /\ EveryFilled(pin')) => (vpc = "idle" /\ vpc' = "fetch")]_vars

\* C7: an audit update is issued exactly once for a verification whose PIN
\* matches, before the success callback is scheduled, and never for a
\* verification that ends denied (wrong PIN, missing record or error).
C7_AuditExactlyOnMatch ==
    [][/\ (vpc = "compare" /\ vpc' # "compare" /\ resp.kind = "ok")
         => ((attemptAudits' = 1) <=> (pinValue \in ProvisionedPins))
       /\ (vpc # "idle" /\ timers' > timers) => attemptAudits = 1
       /\ (VerifyEnds /\ error' # "") => attemptAudits = 0]_vars

\* C8: a failed audit update (an error result or a rejection) never blocks
\* success and is never surfaced.
C8_AuditFailureNeverBlocks ==
    [][(vpc = "update" /\ vpc' = "idle" /\ resp.kind \in {"error", "throw"})
         => (timers' = timers + 1 /\ error' = "")]_vars

\* the stored credential of the user's row, Null when none
OnFile(field) == {r[field] : r \in Matching(db, userEmail)} \ {Null, ""}

\* C9: without a positive capability probe the biometric option is never
\* rendered and no ceremony ever starts, whatever the row's biometric fields.
C9_NoBiometricWithoutCapability ==
    platform # "supported"
      => /\ ~biometricAvailable
         /\ bpc = "idle"
         /\ credential = Null /\ credentialId = Null
         /\ ~registered

\* a negative probe has settled for a user with a credential id on file,
\* and the gate has since granted access by PIN
C9_Witness ==
    /\ platform = "unsupported"
    /\ probe = "done"
    /\ OnFile("biometric_credential_id") # {}
    /\ onSuccessCount = 1

\* C10: when a registration ceremony signals success the record holds a
\* non-empty credential id and public key, and the next biometric
\* authentication runs an assertion ceremony, not a second registration.
C10_RegistrationPersists ==
    [][/\ (bpc = "update" /\ timers' = timers + 1)
         => /\ OnFile("biometric_credential_id") # {}
            /\ OnFile("biometric_public_key") # {}
       /\ (registered /\ bpc = "fetch" /\ bpc' # "fetch" /\ resp.kind = "ok")
         => bpc' # "create"]_vars

\* C11: handleBiometricAuth starts a registration exactly when no credential
\* id is on file for the user and an assertion exactly when one is, never both.
C11_CeremonyByCredentialOnFile ==
    [][(bpc = "fetch" /\ bpc' # "fetch" /\ resp.kind # "throw")
         => LET registers == bpc' = "create"
                asserts == bpc' = "get" \/ (bpc' = "idle" /\ error' = MsgVerifyFailed)
            IN /\ registers <=> (OnFile("biometric_credential_id") = {})
               /\ asserts <=> (OnFile("biometric_credential_id") # {})
               /\ ~(registers /\ asserts)]_vars

\* C12: a ceremony that does not succeed (rejected, or settled with no
\* credential or assertion) surfaces a failure message, schedules no success
\* callback and leaves the table unchanged.
C12_FailedCeremonySurfaced ==
    [][(bpc \in {"create", "get"} /\ bpc' = "idle" /\ resp.kind \in {"null", "throw"})
         => (error' # "" /\ timers' = timers /\ db' = db)]_vars

\* C13: a successful assertion schedules the same success callback as a PIN
\* match and writes nothing: from the click to the return of the assertion
\* path no row changes and no update is issued.
C13_AssertionWritesNothing ==
    [][/\ (bpc = "get" /\ bpc' = "idle" /\ resp.kind = "ok")
         => (timers' = timers + 1 /\ error' = "" /\ ~loading')
       /\ bpc = "get" => (bpc' \in {"get", "idle"} /\ db' = db)
       /\ (bpc = "fetch" /\ bpc' \in {"fetch", "get"}) => db' = db]_vars

\* a second assertion has just been accepted after a first one was granted,
\* and the row still carries its provisioned audit fields
C13_Witness ==
    /\ bpc = "get" /\ resp.kind = "ok"
    /\ timers + onSuccessCount = 1
    /\ pin = EmptyPin
    /\ ~registered
    /\ \A r \in Matching(db, userEmail) :
         r.last_access_at = ProvisionedAt /\ r.access_count = JsNumber(0)

\* C14: once every awaited call and ceremony settles, an attempt that is in
\* flight ends with nothing in flight and loading false, and whenever a
\* failure message is on screen the inputs and the biometric button (all
\* disabled only by loading) are enabled, so a retry can be started.
C14_FailureReturnsToInteractive ==
    /\ [](loading => <>(~loading /\ vpc = "idle" /\ bpc = "idle"))
    /\ [](error # "" => (~loading /\ vpc = "idle" /\ bpc = "idle"))

\* a failed ceremony is on screen after a run of denied PIN attempts, and
\* the gate is interactive
C14_Witness ==
    /\ error = MsgVerifyFailed
    /\ failures = MaxFailures
    /\ ~loading
    /\ vpc = "idle" /\ bpc = "idle"

\* C15: however many PIN attempts in a row were denied, PIN entry is enabled
\* whenever nothing is in flight, a submitted PIN that matches the stored
\* hash goes on to the audit update, and the attempt then grants unless that
\* update throws: the count of failures changes nothing.
C15_NoLockout ==
    [][\A n \in 0..MaxFailures : failures = n =>
         /\ (vpc' = "idle" /\ bpc' = "idle") => ~loading'
         /\ (vpc = "compare" /\ vpc' # "compare" /\ resp.kind = "ok"
               /\ pinValue \in ProvisionedPins) => vpc' = "update"
         /\ (vpc = "update" /\ VerifyEnds /\ resp.kind # "throw")
               => (timers' = timers + 1 /\ error' = "" /\ failures' = 0)]_allVars

\* after MaxFailures denials in a row the correct PIN was submitted, matched,
\* and its audit update has returned: the attempt is about to grant
C15_Witness ==
    /\ failures = MaxFailures
    /\ vpc = "update"
    /\ pinValue \in ProvisionedPins
    /\ resp # Pending /\ resp.kind = "ok"
    /\ timers + onSuccessCount = 0

\* C16: a PIN attempt for an identifier without a record ends, for the person
\* at the gate, exactly as a wrong PIN does (lines 98-99 and 107): the same
\* message, the same cleared entry, the same loading state.
C16_NotFoundLooksLikeWrongPin ==
    [][(VerifyEnds /\ vpc \in {"fetch", "compare"} /\ resp.kind # "throw")
         => <<error', pin', loading'>> = <<MsgInvalidPin, EmptyPin, FALSE>>]_vars

\* C17: an onChange event whose value is longer than one character, or is a
\* single character that is not a digit, changes nothing: no position, not
\* the error message, not loading, no focus move, and no verification call.
C17_NonDigitIgnored ==
    [][(typed' # NoEvent /\ (Len(typed') > 1 \/ typed' \notin DigitChars \cup {""}))
         => UNCHANGED vars]_allVars

\* a letter typed over the last digit while an error message is shown
C17_Witness ==
    /\ typed = "a"
    /\ focus = LastIndex
    /\ error = MsgNotFound
    /\ EveryFilled(pin)
    /\ ~loading

\* C18: no step creates or deletes a row or changes a pin_hash, and the rows
\* of other users are untouched: only the audit and biometric fields of the
\* acting user's row change.
C18_RecordsAndHashesFrozen ==
    [][/\ Cardinality(db') = Cardinality(db)
       /\ \A r \in db : \E q \in db' :
            /\ q.user_email = r.user_email
            /\ q.pin_hash = r.pin_hash
            /\ r.user_email # userEmail => q = r]_vars

\* the acting user's row after an applied audit update and a stored registration
C18_Witness ==
    \E r \in Matching(db, userEmail) :
        /\ r.last_access_at = Now
        /\ r.biometric_credential_id = "A-ID"
        /\ r.biometric_public_key = PublicKeyOf("A-ID")

\* C19: once a verification has completed with Granted, the six PIN
\* positions are all empty.
C19_PinClearedOnGrant ==
    [][(VerifyEnds /\ timers' = timers + 1) => pin' = EmptyPin]_vars

\* C20: the PIN entry always has six positions, each empty or one digit.
C20_PinWellFormed ==
    /\ Len(pin) = PinLen
    /\ \A i \in 1..Len(pin) : pin[i] = "" \/ (Len(pin[i]) = 1 /\ pin[i] \in DigitChars)

\* a partly cleared entry holding both typed digits
C20_Witness ==
    /\ pin[1] = "" /\ pin[2] = "1" /\ pin[PinLen] = "2"
    /\ vpc = "idle"

\* C21: an audit update that the backend applies leaves the user's stored
\* access count a number, one higher than it was: each matching verification
\* adds exactly one.
C21_AccessCountCountsMatches ==
    [][(vpc = "update" /\ resp = Pending /\ resp' # Pending /\ resp'.kind = "ok")
         => \A r \in Matching(db, userEmail) :
              \E q \in Matching(db', userEmail) :
                q.access_count = JsNumber(r.access_count.n + 1)]_allVars

\* C22: onSuccess is scheduled only by a PIN verification that matched the
\* stored hash or by an assertion against a credential id read from the
\* user's record; never by a registration, never without a record.
C22_GrantOnlyOnProvenCredential ==
    [][(timers' = timers + 1)
         => \/ /\ vpc = "update"
               /\ \E r \in Matching(db, userEmail) : BcryptCompare(pinValue, r.pin_hash)
            \/ /\ bpc = "get"
               /\ credentialId \in OnFile("biometric_credential_id")]_allVars

\* C23: verifyPin and handleBiometricAuth start only while loading is false
\* and nothing is in flight, loading is true for as long as either is in
\* flight, and the two are never in flight together.
C23_OneInFlight ==
    [][/\ ((vpc = "idle" /\ vpc' # "idle") \/ (bpc = "idle" /\ bpc' # "idle"))
            => (~loading /\ vpc = "idle" /\ bpc = "idle")
       /\ (vpc' # "idle" \/ bpc' # "idle") => loading'
       /\ ~(vpc' # "idle" /\ bpc' # "idle")]_allVars

\* a PIN verification is in flight while the biometric button is rendered
C23_Witness ==
    /\ vpc = "compare"
    /\ biometricAvailable
    /\ loading
    /\ bpc = "idle"
    /\ timers + onSuccessCount = 1
\* the auth user this request created exists; its exec_users row exists
CreatedUserExists == created # NoUser /\ \E u \in authUsers : u.id = created
CreatedRowExists == created # NoUser /\ \E r \in execUsers : r.user_id = created

\* C24: when a request to create an executive has been answered, the auth
\* user it created exists exactly if its exec_users row exists; after a
\* failed insert that user is gone and the status is 500; after a failed
\* createUser nothing was created and the status is 500; status 200 is
\* answered only with both the user and the row in place.
C24_AllOrNothing ==
    [][(epc # "idle" /\ epc' = "idle")
         => /\ CreatedUserExists' <=> CreatedRowExists'
            /\ epc = "deleteUser" => (~CreatedUserExists' /\ response' = StatusError)
            /\ epc = "createUser" => (created = NoUser /\ response' = StatusError)
            /\ response' = StatusOk => (CreatedUserExists' /\ CreatedRowExists')]_execVars
\* C25: when the insert into employees returns an error, handleHire ends in
\* that step: no row of employees, employee_equity, employee_history or
\* board_resolutions is written, no document function is invoked, an error
\* message is shown, and the hire modal and its form are left as they were.
C25_FailedInsertStopsHire ==
    [][(insertError' /\ ~insertError)
         => /\ hpc' = "idle"
            /\ UNCHANGED <<employeesDb, equityDb, historyDb, resolutions>>
            /\ invoked' = <<>> /\ sent' = <<>>
            /\ lastMessage'.kind = "error"
            /\ isModalVisible' = isModalVisible
            /\ form' = form]_personnelVars

\* the hire of a CEO with equity stopped at the insert: error shown, modal
\* open with the form filled, nothing written or sent
C25_Witness ==
    /\ insertError
    /\ hpc = "idle"
    /\ lastMessage.kind = "error"
    /\ isModalVisible
    /\ form = [position |-> "CEO", equity |-> 5]
    /\ equityDb = {} /\ historyDb = {} /\ resolutions = 0
    /\ invoked = <<>>

\* the documents a success message names
DocsNamed(text) ==
    IF text = DocsAll
    THEN {BoardResolutionDoc, OfferLetterDoc, EquityAgreementDoc, FoundersAgreementDoc}
    ELSE IF text = DocsEquity
    THEN {BoardResolutionDoc, OfferLetterDoc, EquityAgreementDoc}
    ELSE IF text = DocsBasic THEN {BoardResolutionDoc, OfferLetterDoc}
    ELSE {}

\* C26: when handleHire finishes with every document function call having
\* succeeded, the documents sent are exactly those its success message
\* names, and the board resolution was sent first.
C26_SentMatchesMessage ==
    [][(hpc = "send" /\ hpc' = "idle"
          /\ lastMessage'.text \in {DocsAll, DocsEquity, DocsBasic}
          /\ Len(sent') = Len(invoked'))
         => /\ {sent'[i] : i \in 1..Len(sent')} = DocsNamed(lastMessage'.text)
            /\ sent'[1] = BoardResolutionDoc]_personnelVars

\* C27: Promote and Terminate start only for an employee whose stored status
\* is 'active', and no step changes the row of an employee whose stored
\* status is 'terminated'.
C27_TerminatedIsTerminal ==
    [][/\ \A r \in employeesDb : r.employment_status = "terminated" => r \in employeesDb'
       /\ \A e \in (selectedEmployee' \ selectedEmployee) \cup (terminating' \ terminating) :
            \A r \in employeesDb : r.id = e.id => r.employment_status = "active"]_personnelVars
\* C28: fetchDashboardMetrics starts only while the portal is mounted and
\* authorized, and once no call is in flight the metrics on screen are
\* those set by the most recently started call.
C28_LatestFetchWins ==
    [][/\ started' > started => (isAuthorized' /\ mounted')
       /\ (inflight' = {} /\ started' > 0 /\ mounted')
            => metrics' = MetricsOf(latest')]_boardVars

\* C29: a foreground push notification received while the sound setting is
\* off plays no sound.
C29_SoundFollowsSetting ==
    [][(pushes' = pushes + 1 /\ ~settings.sound) => playedSounds' = playedSounds]_pushVars
====
